---- MODULE Spec2Model ----
(***************************************************************************)
(* State-machine model of MultiShopSpider                                  *)
(* (src/shopify_scraper/spiders/multi_shop_spider.py).                     *)
(*                                                                         *)
(* The spider's callbacks run on Scrapy's single reactor thread; each      *)
(* action below is one callback invocation on one response (or failure),   *)
(* including every write_shop_item call and every request it yields.       *)
(*                                                                         *)
(* Data representation                                                     *)
(*   - Python None is the string None for codes and words, 0 for product   *)
(*     ids and the empty sequence for texts.                               *)
(*   - A text (price, key value, page text) is a sequence of tokens; a     *)
(*     token is a maximal chunk that is either three uppercase letters     *)
(*     (Upper3), a currency symbol, or other characters.                   *)
(*   - A shop key stands for the sequence of its characters (Chars), so    *)
(*     that the file-name and host computations are carried out.           *)
(***************************************************************************)
EXTENDS Integers, Sequences, FiniteSets, Bags, TLC

None == "None"

\* ---------------------------------------------------------------- bounds
\* Number of callback invocations explored in one crawl.
MaxResponses == 3
\* Number of callback invocations explored by the long-chain specification.
MaxChain == 502

\* -------------------------------------------------------------- constants
\* limit=250 of the listing urls: the page size asked for.
PageLimit == 250

\* ------------------------------------------------------- sequence helpers
Last(s) == s[Len(s)]

RECURSIVE Contains(_, _)
Contains(s, x) == IF s = <<>> THEN FALSE
                  ELSE IF Head(s) = x THEN TRUE ELSE Contains(Tail(s), x)

EndsWith(s, suf) ==
    /\ Len(s) >= Len(suf)
    /\ SubSeq(s, Len(s) - Len(suf) + 1, Len(s)) = suf

\* ------------------------------------------------------------- the shops
\* The shop keys a crawl may be constructed with (normalised; the second
\* carries a path so that the file-name substitution acts; the last label of
\* the third ends with the letters of a key of the TLD table).
Shop1 == "a.pk"
Shop2 == "b/c"
Shop3 == "c.plus"
Shops == {Shop1, Shop2, Shop3}

\* The characters of a shop key.
Chars(shop) == CASE shop = Shop1 -> <<"a", ".", "p", "k">>
                 [] shop = Shop2 -> <<"b", "/", "c">>
                 [] shop = Shop3 -> <<"c", ".", "p", "l", "u", "s">>

\* Characters of [A-Za-z0-9._-] among those used in shop names.
SafeChars == {"a", "b", "c", "p", "k", "l", "u", "s", ".", "_", "-"}

\* re.sub(r'[^A-Za-z0-9._-]+', '_', shop): every maximal run of other
\* characters becomes one underscore.
RECURSIVE SubUnsafe(_, _)
SubUnsafe(s, inRun) ==
    IF s = <<>> THEN <<>>
    ELSE IF Head(s) \in SafeChars
         THEN <<Head(s)>> \o SubUnsafe(Tail(s), FALSE)
         ELSE (IF inRun THEN <<>> ELSE <<"_">>) \o SubUnsafe(Tail(s), TRUE)

\* Variant: one file name for every shop.
_safe_shop_filename_shared(shop) == <<"products_", ".jsonl">>

_safe_shop_filename(shop) ==
    <<"products_">> \o SubUnsafe(Chars(shop), FALSE) \o <<".jsonl">>

FileNames == {_safe_shop_filename(s) : s \in Shops}

\* ------------------------------------------------------ currency tables
\* Tokens that are exactly three uppercase letters.
Upper3 == {"PKR", "USD", "EUR", "GBP", "AUD", "CAD", "INR", "JPY"}

\* _SYMBOL_TO_CODE(), in dict (insertion) order.
_SYMBOL_TO_CODE ==
    << <<"$", "USD">>, <<"EUR_SIGN", "EUR">>, <<"GBP_SIGN", "GBP">>,
       <<"INR_SIGN", "INR">>, <<"JPY_SIGN", "JPY">>, <<"RUB_SIGN", "RUB">>,
       <<"KRW_SIGN", "KRW">>, <<"TRY_SIGN", "TRY">>, <<"R$", "BRL">>,
       <<"S$", "SGD">>, <<"PHP_SIGN", "PHP">>, <<"PKR", "PKR">>,
       <<"USD", "USD">>, <<"EUR", "EUR">>, <<"GBP", "GBP">>,
       <<"AUD", "AUD">>, <<"CAD", "CAD">>, <<"INR", "INR">> >>

\* _TLD_TO_CURRENCY(), in dict order; keys as character sequences.
_TLD_TO_CURRENCY ==
    << <<<<"p", "k">>, "PKR">>, <<<<"u", "s">>, "USD">>, <<<<"u", "k">>, "GBP">>,
       <<<<"c", "o", ".", "u", "k">>, "GBP">>, <<<<"i", "n">>, "INR">>,
       <<<<"j", "p">>, "JPY">>, <<<<"a", "u">>, "AUD">>, <<<<"c", "a">>, "CAD">>,
       <<<<"d", "e">>, "EUR">>, <<<<"f", "r">>, "EUR">>, <<<<"i", "t">>, "EUR">>,
       <<<<"e", "s">>, "EUR">>, <<<<"n", "l">>, "EUR">> >>

\* "sym in text" for a one-token symbol: "$" is also found inside the
\* tokens "R$" and "S$".
SymIn(sym, text) ==
    \E i \in 1..Len(text) :
        \/ text[i] = sym
        \/ sym = "$" /\ text[i] \in {"R$", "S$"}

\* re.search(r"([A-Z]{3})", text): the first three-uppercase-letter token.
RECURSIVE Search3(_)
Search3(text) == IF text = <<>> THEN None
                 ELSE IF Head(text) \in Upper3 THEN Head(text)
                 ELSE Search3(Tail(text))

\* First entry of the symbol table, in table order, whose symbol occurs.
RECURSIVE FirstSymbol(_, _)
FirstSymbol(table, text) ==
    IF table = <<>> THEN None
    ELSE IF SymIn(Head(table)[1], text) THEN Head(table)[2]
    ELSE FirstSymbol(Tail(table), text)

\* First entry of the TLD table, in table order, that the host ends with.
RECURSIVE FirstTld(_, _)
FirstTld(table, host) ==
    IF table = <<>> THEN None
    ELSE IF EndsWith(host, <<".">> \o Head(table)[1]) \/ EndsWith(host, Head(table)[1])
         THEN Head(table)[2]
    ELSE FirstTld(Tail(table), host)

\* response.url.split('/')[2] for a url https://<shop>/...: the shop up to
\* its first slash.
RECURSIVE UpToSlash(_)
UpToSlash(cs) == IF cs = <<>> \/ Head(cs) = "/" THEN <<>>
                 ELSE <<Head(cs)>> \o UpToSlash(Tail(cs))

Host(shop) == UpToSlash(Chars(shop))

_currency_from_price_text(price_text) ==
    IF price_text = <<>> THEN None
    ELSE IF Search3(price_text) # None THEN Search3(price_text)
    ELSE FirstSymbol(_SYMBOL_TO_CODE, price_text)

\* ------------------------------------------------------ words and filters
\* str.lower() and str.strip() on the words used for product types and tags.
Lower(w) == CASE w = "Shoes" -> "shoes"
              [] w = "New"   -> "new"
              [] w = "NEW"   -> "new"
              [] w = " New " -> " new "
              [] OTHER       -> w

Strip(w) == CASE w = " New " -> "New"
              [] w = " new " -> "new"
              [] OTHER       -> w

RECURSIVE MapStripLower(_)
MapStripLower(ws) == IF ws = <<>> THEN <<>>
                     ELSE <<Strip(Lower(Head(ws)))>> \o MapStripLower(Tail(ws))

\* prod: [id, handle, title, product_type, tags: [kind, val], variants]
\* meta_filters: [filter_tag, filter_product_type, collection]
_product_matches_filters(prod, meta_filters) ==
    LET filter_pt  == meta_filters.filter_product_type
        prod_pt    == IF prod.product_type = None THEN ""
                      ELSE Lower(Strip(prod.product_type))
        filter_tag == meta_filters.filter_tag
        tags_field == prod.tags
    IN  IF filter_pt # None /\ prod_pt # filter_pt THEN FALSE
        ELSE IF filter_tag = None THEN TRUE
        ELSE IF tags_field.kind \in {"str", "list"}
             THEN Contains(MapStripLower(tags_field.val), filter_tag)
        ELSE FALSE

\* ------------------------------------------------- JSON currency detector
TopKeys == <<"currency", "currency_code", "shop_currency", "currencyIsoCode",
             "money_format", "money_with_currency_format">>

\* "currency" in kl or "currency_code" in kl or "money" in kl
CurrencyLikeKey(k) == Contains(TopKeys, k) \/ k \in {"presentment_currency", "moneyFormat"}

\* data.get(key) on the top-level string entries (<<>> when absent).
RECURSIVE GetField(_, _)
GetField(fields, key) ==
    IF fields = <<>> THEN <<>>
    ELSE IF Head(fields).k = key THEN Head(fields).v
    ELSE GetField(Tail(fields), key)

\* re.search(r"^[A-Z]{3}$", v)
Exact3(v) == Len(v) = 1 /\ v[1] \in Upper3

\* Lines 340-346: the direct keys, in the order of the key tuple.
RECURSIVE DirectKeys(_, _)
DirectKeys(keys, fields) ==
    IF keys = <<>> THEN None
    ELSE IF Search3(GetField(fields, Head(keys))) # None
         THEN Search3(GetField(fields, Head(keys)))
    ELSE DirectKeys(Tail(keys), fields)

\* scan() over the string entries of one mapping, in document order.
RECURSIVE ScanEntries(_)
ScanEntries(fields) ==
    IF fields = <<>> THEN None
    ELSE LET e == Head(fields)
         IN  IF Exact3(e.v) THEN e.v[1]
             ELSE IF CurrencyLikeKey(e.k) /\ Search3(e.v) # None THEN Search3(e.v)
             ELSE ScanEntries(Tail(fields))

\* The string entries of a product mapping (depth 2); its variants and images
\* are sequences at depth 3 whose elements lie beyond the depth limit.
ProductEntries(prod) ==
    <<[k |-> "title", v |-> prod.title]>>
    \o (IF prod.handle = None THEN <<>> ELSE <<[k |-> "handle", v |-> <<prod.handle>>]>>)
    \o (IF prod.product_type = None THEN <<>>
        ELSE <<[k |-> "product_type", v |-> <<prod.product_type>>]>>)
    \o (IF prod.tags.kind = "str" THEN <<[k |-> "tags", v |-> prod.tags.val]>> ELSE <<>>)

\* scan() over the products list: obj[:10].
RECURSIVE ScanProducts(_, _)
ScanProducts(products, n) ==
    IF products = <<>> \/ n = 0 THEN None
    ELSE IF ScanEntries(ProductEntries(Head(products))) # None
         THEN ScanEntries(ProductEntries(Head(products)))
    ELSE ScanProducts(Tail(products), n - 1)

\* json.dumps(data): every text of the payload in document order; with
\* ensure_ascii every non-ASCII symbol is written as an escape.
Ascii(tok) == IF tok \in {"EUR_SIGN", "GBP_SIGN", "INR_SIGN", "JPY_SIGN", "RUB_SIGN",
                          "KRW_SIGN", "TRY_SIGN", "PHP_SIGN"}
              THEN "\\u" ELSE tok

RECURSIVE MapAscii(_)
MapAscii(text) == IF text = <<>> THEN <<>>
                  ELSE <<Ascii(Head(text))>> \o MapAscii(Tail(text))

RECURSIVE FieldsText(_)
FieldsText(fields) == IF fields = <<>> THEN <<>>
                      ELSE Head(fields).v \o FieldsText(Tail(fields))

RECURSIVE VariantsText(_)
VariantsText(vs) == IF vs = <<>> THEN <<>> ELSE Head(vs) \o VariantsText(Tail(vs))

RECURSIVE ProductsText(_)
ProductsText(ps) ==
    IF ps = <<>> THEN <<>>
    ELSE Head(ps).title \o <<Head(ps).handle, Head(ps).product_type>>
         \o Head(ps).tags.val \o VariantsText(Head(ps).variants)
         \o ProductsText(Tail(ps))

DumpsText(data) == MapAscii(FieldsText(data.fields) \o ProductsText(data.products))

\* Variant: the nested scan runs before the direct keys.
_currency_from_json_shallow_nested_first(data) ==
    LET direct == DirectKeys(TopKeys, data.fields)
        found  == IF ScanEntries(data.fields) # None THEN ScanEntries(data.fields)
                  ELSE ScanProducts(data.products, 10)
        sym    == FirstSymbol(_SYMBOL_TO_CODE, DumpsText(data))
    IN  IF found # None THEN <<found, "json_nested">>
        ELSE IF direct # None THEN <<direct, "json_key">>
        ELSE IF sym # None THEN <<sym, "json_symbol">>
        ELSE <<None, None>>

\* data: [fields: Seq([k, v]), products: Seq(prod)], the products entry last.
_currency_from_json_shallow(data) ==
    LET direct == DirectKeys(TopKeys, data.fields)
        found  == IF ScanEntries(data.fields) # None THEN ScanEntries(data.fields)
                  ELSE ScanProducts(data.products, 10)
        sym    == FirstSymbol(_SYMBOL_TO_CODE, DumpsText(data))
    IN  IF direct # None THEN <<direct, "json_key">>
        ELSE IF found # None THEN <<found, "json_nested">>
        ELSE IF sym # None THEN <<sym, "json_symbol">>
        ELSE <<None, None>>

\* ------------------------------------------------- HTML currency detector
\* val.strip().upper() on the meta contents used.
Upper(w) == CASE w = "usd" -> "USD"
              [] w = " PKR " -> "PKR"
              [] OTHER -> w

RECURSIVE FirstMeta(_)
FirstMeta(metas) ==
    IF metas = <<>> THEN None
    ELSE IF Head(metas) # None /\ Upper(Head(metas)) \in Upper3 THEN Upper(Head(metas))
    ELSE FirstMeta(Tail(metas))

RECURSIVE FirstScript(_)
FirstScript(js) == IF js = <<>> THEN None
                   ELSE IF Head(js) # None THEN Head(js)
                   ELSE FirstScript(Tail(js))

\* page: [metas: the content of the four meta selectors (None when absent),
\*        js: the code captured by each of the five script patterns,
\*        money: the joined text of .money/.price/.product-price]
_currency_from_html(page, shop) ==
    LET meta == FirstMeta(page.metas)
        js   == FirstScript(page.js)
        sym  == FirstSymbol(_SYMBOL_TO_CODE, page.money)
        tld  == FirstTld(_TLD_TO_CURRENCY, Host(shop))
    IN  IF meta # None THEN <<meta, "html_meta">>
        ELSE IF js # None THEN <<js, "html_script">>
        ELSE IF sym # None THEN <<sym, "html_money_symbol">>
        ELSE IF tld # None THEN <<tld, "tld_heuristic">>
        ELSE <<None, None>>

\* ------------------------------------------------------------------ state
VARIABLES
    shops,                \* self.shops
    collection,           \* self.collection
    filter_tag,           \* self.filter_tag
    filter_product_type,  \* self.filter_product_type
    shop_stats,           \* self.shop_stats: shop -> [items, saved, failed]
    shop_currency,        \* self.shop_currency: shop -> <<code, source>>
    _header_written,      \* self._header_written
    files,                \* the output sink: file name -> records appended
    requests,             \* requests handed to the scheduler, not yet answered
    phase,                \* "constructed", "crawling" or "closed"
    summary,              \* lines of crawl_summary.txt
    last,                 \* the callback invocation just completed
    nresp,                \* number of callback invocations so far
    listing_issued,       \* history: listing requests yielded, per shop
    empty_run,            \* history: consecutive empty listing pages, per shop
    rejected              \* history: rejected listing responses, per shop

vars == <<shops, collection, filter_tag, filter_product_type, shop_stats, shop_currency,
          _header_written, files, requests, phase, summary, last, nresp,
          listing_issued, empty_run, rejected>>

history == <<listing_issued, empty_run, rejected>>

config == <<shops, collection, filter_tag, filter_product_type>>

\* The part of the spider the callbacks mutate, as one value.
Self == [stats |-> shop_stats, cur |-> shop_currency, hw |-> _header_written,
         files |-> files]

ZeroStats == [items |-> 0, saved |-> 0, failed |-> 0]

\* Variant: the entry is assigned, which resets the counters of a known shop.
setdefault_overwrite(stats, shop) ==
    IF shop \in DOMAIN stats THEN [stats EXCEPT ![shop] = ZeroStats]
    ELSE stats @@ (shop :> ZeroStats)

\* self.shop_stats.setdefault(shop, {'items': 0, 'saved': 0, 'failed': 0})
setdefault(stats, shop) ==
    IF shop \in DOMAIN stats THEN stats ELSE stats @@ (shop :> ZeroStats)

IncFailed(stats, shop) ==
    [setdefault(stats, shop) EXCEPT ![shop].failed = @ + 1]

\* Variant: a successful write counts as saved but not as an item.
IncSaved_saved_only(stats, shop) ==
    [setdefault(stats, shop) EXCEPT ![shop].saved = @ + 1]

IncSaved(stats, shop) ==
    [setdefault(stats, shop) EXCEPT ![shop].items = @ + 1, ![shop].saved = @ + 1]

\* self.shop_currency.get(shop, (None, None))
CurrencyGet(cur, shop) == IF shop \in DOMAIN cur THEN cur[shop] ELSE <<None, None>>

\* self.shop_currency[shop] = (code, source)
CurrencySet(cur, shop, code, source) ==
    IF shop \in DOMAIN cur THEN [cur EXCEPT ![shop] = <<code, source>>]
    ELSE cur @@ (shop :> <<code, source>>)

\* The header record (detected_at, a wall-clock time, is left out).
Header(shop, code, source) ==
    [type |-> "currency_info", shop |-> shop, currency |-> code,
     currency_source |-> source]

\* Outcomes of one write_shop_item call: every open() succeeds ("ok"), or the
\* sink is unavailable and the first open() of the call raises ("fail").
WriteOutcomes == {"ok", "fail"}

\* Variant: the item is appended without the header check of lines 131-143.
write_shop_item_noheader(st, item_dict, shop, outcome) ==
    IF outcome = "ok"
    THEN [st EXCEPT !.files[_safe_shop_filename(shop)] = Append(@, item_dict),
                    !.stats = IncSaved(@, shop)]
    ELSE [st EXCEPT !.stats = IncFailed(@, shop)]

\* st: [stats, cur, hw, files]
write_shop_item(st, item_dict, shop, outcome) ==
    LET filename == _safe_shop_filename(shop)
        need     == shop \notin st.hw
        cs       == CurrencyGet(st.cur, shop)
        st1      == IF need
                    THEN [st EXCEPT !.files[filename] = Append(@, Header(shop, cs[1], cs[2])),
                                    !.hw = @ \cup {shop}]
                    ELSE st
    IN  IF outcome = "ok"
        THEN [st1 EXCEPT !.files[filename] = Append(@, item_dict),
                         !.stats = IncSaved(@, shop)]
        ELSE [st EXCEPT !.stats = IncFailed(@, shop)]

\* ---------------------------------------------------------------- requests
\* A request: callback, meta['shop'], the url (its path and since_id), the
\* filters carried in meta, and whether it has the errback.
Request(callback, shop, path, since_id, meta, errback) ==
    [callback |-> callback, shop |-> shop, path |-> path, since_id |-> since_id,
     meta |-> meta, errback |-> errback]

NoMeta == [filter_tag |-> None, filter_product_type |-> None, collection |-> None]

ProbeRequest(shop) ==
    Request("parse_currency_page", shop, "collections/all", 0, NoMeta, FALSE)

\* Variant: the fallback asks for the listing again.
HomeRequest_retry(shop) ==
    Request("parse_products_json", shop, "products.json?limit=250", 0, NoMeta, FALSE)

HomeRequest(shop) ==
    Request("parse_collection_page", shop, "", 0, NoMeta, FALSE)

RECURSIVE SeqToBag(_)
SeqToBag(s) == IF s = <<>> THEN EmptyBag
               ELSE SetToBag({Head(s)}) (+) SeqToBag(Tail(s))

\* Requests yielded by start_requests for one shop of self.shops.
SeedRequests(shop) ==
    << ProbeRequest(shop),
       Request("parse_products_json", shop,
               IF collection # None THEN "collections/<collection>/products.json?limit=250"
               ELSE "products.json?limit=250",
               0,
               [filter_tag |-> filter_tag, filter_product_type |-> filter_product_type,
                collection |-> collection],
               TRUE) >>

RECURSIVE SeedAll(_)
SeedAll(ss) == IF ss = <<>> THEN <<>>
               ELSE SeedRequests(Head(ss)) \o SeedAll(Tail(ss))

RECURSIVE SetDefaultAll(_, _)
SetDefaultAll(stats, ss) ==
    IF ss = <<>> THEN stats ELSE SetDefaultAll(setdefault(stats, Head(ss)), Tail(ss))

\* What `last` records of a callback invocation: the callback, the request
\* answered, the response, the requests yielded and the outcomes of the
\* write_shop_item calls made.
Event(callback, req, response, yielded, writes) ==
    [callback |-> callback, req |-> req, shop |-> req.shop, response |-> response,
     yielded |-> yielded, writes |-> writes]

NoResponse == [status |-> 0]
NoRequest  == Request(None, None, "", 0, NoMeta, FALSE)

\* ------------------------------------------------------- modelled inputs
\* Catalog records.
Prod(id, product_type, price) ==
    [id |-> id, handle |-> "h", title |-> <<"shirt">>, product_type |-> product_type,
     tags |-> [kind |-> "list", val |-> <<"NEW">>], variants |-> <<price>>]

\* What json.loads returns for a body it accepts: a JSON object (dict) with
\* its top-level string entries and its products, or another JSON value.
Payload(fields, products) == [dict |-> TRUE, fields |-> fields, products |-> products]

\* A body that is valid JSON but not an object, such as [] or null.
DataList == [dict |-> FALSE, fields |-> <<>>, products |-> <<>>]

DataEmpty == Payload(<<>>, <<>>)
Data12    == Payload(<<>>, <<Prod(1, "Shoes", <<"12">>), Prod(2, "Shoes", <<"12">>)>>)
Data23    == Payload(<<>>, <<Prod(2, "Shoes", <<"12">>), Prod(3, "hats", <<"12">>)>>)
DataCur   == Payload(<<[k |-> "currency_code", v |-> <<"PKR", "-detail">>]>>,
                     <<Prod(1, "Shoes", <<"12">>)>>)
DataEur   == Payload(<<[k |-> "currency", v |-> <<"EUR">>]>>, <<>>)
DataNoId  == Payload(<<>>, <<Prod(0, "Shoes", <<"$", "12">>)>>)

Payloads == {DataEmpty, Data12, Data23, DataCur, DataEur, DataNoId}

\* Payloads exercising the JSON currency detector and the filters.
ProdT(title, price) == [Prod(1, "Shoes", price) EXCEPT !.title = title]

\* {"currency_code": "PKR-detail", "products": [{... "price": "$12"}]}
DataKeySym    == Payload(<<[k |-> "currency_code", v |-> <<"PKR", "-detail">>]>>,
                         <<Prod(1, "Shoes", <<"$", "12">>)>>)
\* {"name": "EUR", "money_format": "${{amount}} GBP", "products": []}
DataKeyNested == Payload(<<[k |-> "name", v |-> <<"EUR">>],
                           [k |-> "money_format", v |-> <<"$", "{{amount}} ", "GBP">>]>>,
                         <<>>)
\* {"currency": "usd", "shop_currency": "CAD", "products": [...]}
DataKeySkip   == Payload(<<[k |-> "currency", v |-> <<"usd">>],
                           [k |-> "shop_currency", v |-> <<"CAD">>]>>,
                         <<Prod(1, "Shoes", <<"12">>)>>)
\* {"money_format": "AUD", "currency": "INR", "products": []}
DataKeyOrder  == Payload(<<[k |-> "money_format", v |-> <<"AUD">>],
                           [k |-> "currency", v |-> <<"INR">>]>>,
                         <<>>)
\* {"name": "EUR", "products": []}
DataNested    == Payload(<<[k |-> "name", v |-> <<"EUR">>]>>, <<>>)
\* {"products": [{"title": "PKR special", ... "price": "$12"}]}
DataSymTwo    == Payload(<<>>, <<ProdT(<<"PKR", " special">>, <<"$", "12">>)>>)
\* {"products": [{... "price": "R$12"}]}
DataSymReal   == Payload(<<>>, <<ProdT(<<"shirt">>, <<"R$", "12">>)>>)
\* {"products": [{... "price": "<euro sign>12"}]}
DataSymEuro   == Payload(<<>>, <<ProdT(<<"shirt">>, <<"EUR_SIGN", "12">>)>>)
\* {"products": [{"product_type": "hats", ...}]}
DataHats      == Payload(<<>>, <<Prod(3, "hats", <<"12">>)>>)

PagePayloads == {DataEmpty, Data12, DataKeySym, DataKeyNested, DataKeySkip, DataKeyOrder,
                 DataNested, DataSymTwo, DataSymReal, DataSymEuro, DataHats}

\* A response to a listing request: status, whether the Content-Type is
\* application/json (the url of a listing request carries a query string and
\* never ends with .json), whether json.loads succeeds, the payload, and the
\* hrefs of an HTML body.
ListingResponse(status, json, parse_ok, data, hrefs) ==
    [status |-> status, json |-> json, parse_ok |-> parse_ok, data |-> data,
     hrefs |-> hrefs]

ListingResponses ==
    {ListingResponse(200, TRUE, TRUE, d, <<>>) : d \in Payloads}
    \cup {ListingResponse(200, TRUE, FALSE, DataEmpty, <<>>),
          ListingResponse(200, TRUE, TRUE, DataList, <<>>),
          ListingResponse(200, FALSE, FALSE, DataEmpty, <<"product", "collection">>)}
    \cup {ListingResponse(st, FALSE, FALSE, DataEmpty, <<>>) : st \in {401, 403, 404, 406, 500}}

\* Variant: the statuses 404 and 406 are let through instead.
handle_httpstatus_list_404_406 == {404, 406}

\* meta['handle_httpstatus_list'] of the listing requests; any other non-2xx
\* status is turned into a failure by the framework and never reaches the
\* callback.
handle_httpstatus_list == {401, 403, 404}

\* Pages answering the currency probe.
HtmlPage(metas, js, money) == [status |-> 200, metas |-> metas, js |-> js, money |-> money]

NoMetas  == <<None, None, None, None>>
NoJs     == <<None, None, None, None, None>>
PagePlain == HtmlPage(NoMetas, NoJs, <<"12">>)
PageMeta  == HtmlPage(<<None, "usd", None, None>>, NoJs, <<"12">>)

ProbePages == {PagePlain, PageMeta}

\* Pages answering a home / collection page request.
CollectionPage(password, hrefs) == [status |-> 200, password |-> password, hrefs |-> hrefs]

CollectionPages == {CollectionPage(TRUE, <<>>), CollectionPage(FALSE, <<>>),
                    CollectionPage(FALSE, <<"product">>)}

\* Pages answering a product page request.
ProductPage(price) == [status |-> 200, price |-> price]

ProductPages == {ProductPage(<<"$", "12">>)}

\* Filter settings the spider is constructed with: <<collection, tag, product_type>>.
Configs == {<<None, None, None>>, <<"sale", "new", "shoes">>}

\* ---------------------------------------------------------------- records
\* {"note": "header_placeholder"}
Placeholder == [note |-> "header_placeholder"]

IsHeader(rec) == "type" \in DOMAIN rec /\ rec.type = "currency_info"
IsPlaceholder(rec) == "note" \in DOMAIN rec
IsProduct(rec) == "source" \in DOMAIN rec

\* Variant: the price text is consulted before the cached shop currency.
ItemDict_price_first(prod, shop, cur) ==
    LET price  == IF prod.variants # <<>> THEN prod.variants[1] ELSE <<>>
        cached == CurrencyGet(cur, shop)
        pt     == _currency_from_price_text(price)
        code   == IF pt # None THEN pt ELSE cached[1]
        source == IF pt # None THEN "price_text" ELSE cached[2]
    IN  [source |-> shop, product_id |-> prod.id, url |-> prod.handle,
         raw |-> prod, price |-> price, currency |-> code, currency_source |-> source,
         price_with_currency |-> IF price # <<>> /\ code # None
                                 THEN <<code, ": ">> \o price ELSE price]

\* Lines 237-294: the item dict of one catalog record (the fields the
\* properties read), with its currency annotation.
ItemDict(prod, shop, cur) ==
    LET price  == IF prod.variants # <<>> THEN prod.variants[1] ELSE <<>>
        cached == CurrencyGet(cur, shop)
        pt     == _currency_from_price_text(price)
        code   == IF cached[1] # None THEN cached[1] ELSE pt
        source == IF cached[1] # None THEN cached[2]
                  ELSE IF pt # None THEN "price_text" ELSE cached[2]
    IN  [source |-> shop, product_id |-> prod.id, url |-> prod.handle,
         raw |-> prod, price |-> price, currency |-> code, currency_source |-> source,
         price_with_currency |-> IF price # <<>> /\ code # None
                                 THEN <<code, ": ">> \o price ELSE price]

\* Variant: a failed write ends the loop (no try/except around the write).
RECURSIVE ProductLoop_abort(_, _, _, _, _, _)
ProductLoop_abort(st, products, i, shop, meta_filters, ws) ==
    IF i > Len(products) THEN [st |-> st, out |-> <<>>, writes |-> <<>>]
    ELSE IF ~ _product_matches_filters(products[i], meta_filters)
         THEN ProductLoop_abort(st, products, i + 1, shop, meta_filters, ws)
    ELSE LET item_dict == ItemDict(products[i], shop, st.cur)
             st1   == write_shop_item(st, item_dict, shop, ws[i])
             rest  == IF ws[i] = "ok"
                      THEN ProductLoop_abort(st1, products, i + 1, shop, meta_filters, ws)
                      ELSE [st |-> st1, out |-> <<>>, writes |-> <<>>]
         IN  [st |-> rest.st, out |-> rest.out, writes |-> <<ws[i]>> \o rest.writes]

\* Lines 233-306: the loop over the products of one page, from index i on.
\* ws[i] is the outcome of the write of product i.  Result: the state, the
\* requests yielded and the outcomes of the writes made.
RECURSIVE ProductLoop(_, _, _, _, _, _)
ProductLoop(st, products, i, shop, meta_filters, ws) ==
    IF i > Len(products) THEN [st |-> st, out |-> <<>>, writes |-> <<>>]
    ELSE IF ~ _product_matches_filters(products[i], meta_filters)
         THEN ProductLoop(st, products, i + 1, shop, meta_filters, ws)
    ELSE LET item_dict == ItemDict(products[i], shop, st.cur)
             probe == IF item_dict.currency = None /\ shop \notin DOMAIN st.cur
                      THEN <<ProbeRequest(shop)>> ELSE <<>>
             rest  == ProductLoop(write_shop_item(st, item_dict, shop, ws[i]),
                                  products, i + 1, shop, meta_filters, ws)
         IN  [st |-> rest.st, out |-> probe \o rest.out,
              writes |-> <<ws[i]>> \o rest.writes]

\* Variant: a next page is asked for after an empty page too.
NextPage_always(products, shop, meta_filters) ==
    <<Request("parse_products_json", shop, "products.json?limit=250&since_id=",
              IF products # <<>> THEN Last(products).id ELSE 0, meta_filters, FALSE)>>

\* Variant: offset pagination, which goes on only after a full page.
NextPage_offset(products, shop, meta_filters) ==
    IF Len(products) = PageLimit
    THEN <<Request("parse_products_json", shop, "products.json?limit=250&offset=",
                   PageLimit, meta_filters, FALSE)>>
    ELSE <<>>

\* Variant: the pagination decision is taken on the records that pass the
\* filters.
NextPage_filtered(products, shop, meta_filters) ==
    LET Match(prod) == _product_matches_filters(prod, meta_filters)
        kept == SelectSeq(products, Match)
    IN  IF kept # <<>> /\ Last(kept).id # 0
        THEN <<Request("parse_products_json", shop, "products.json?limit=250&since_id=",
                       Last(kept).id, meta_filters, FALSE)>>
        ELSE <<>>

\* Variant: the pagination request is yielded twice.
NextPage_twice(products, shop, meta_filters) ==
    IF products # <<>> /\ Last(products).id # 0
    THEN <<Request("parse_products_json", shop, "products.json?limit=250&since_id=",
                   Last(products).id, meta_filters, FALSE),
           Request("parse_products_json", shop, "products.json?limit=250&since_id=",
                   Last(products).id, meta_filters, FALSE)>>
    ELSE <<>>

\* Lines 308-324: the since_id pagination request.
NextPage(products, shop, meta_filters) ==
    IF products # <<>> /\ Last(products).id # 0
    THEN <<Request("parse_products_json", shop, "products.json?limit=250&since_id=",
                   Last(products).id, meta_filters, FALSE)>>
    ELSE <<>>

\* Lines 326-335: the requests followed from the hrefs of an HTML body.
RECURSIVE FollowProducts(_, _, _)
FollowProducts(hrefs, shop, meta) ==
    IF hrefs = <<>> THEN <<>>
    ELSE (IF Head(hrefs) = "product"
          THEN <<Request("parse_product_page", shop, "product", 0, meta, FALSE)>>
          ELSE <<>>) \o FollowProducts(Tail(hrefs), shop, meta)

RECURSIVE FollowCollections(_, _)
FollowCollections(hrefs, shop) ==
    IF hrefs = <<>> THEN <<>>
    ELSE (IF Head(hrefs) \in {"collection", "collection_selected"}
          THEN <<Request("parse_collection_page", shop, "collection", 0,
                         [NoMeta EXCEPT !.collection =
                             IF collection # None /\ Head(hrefs) = "collection_selected"
                             THEN collection ELSE None],
                         FALSE)>>
          ELSE <<>>) \o FollowCollections(Tail(hrefs), shop)

Rejected(resp) ==
    \/ resp.status \in {401, 403, 404}
    \/ resp.status = 200 /\ resp.json /\ ~resp.parse_ok

\* parse_products_json on one response: the state, the requests yielded and
\* the outcomes of the writes made.  w0 is the outcome of the placeholder
\* write, ws those of the product writes.
ListingResult(st, shop, meta, resp, w0, ws) ==
    LET st0 == [st EXCEPT !.stats = setdefault(@, shop)]
        meta_filters == [filter_tag |-> meta.filter_tag,
                         filter_product_type |-> meta.filter_product_type,
                         collection |-> meta.collection]
    IN  IF Rejected(resp)
        THEN [st |-> [st0 EXCEPT !.stats = IncFailed(@, shop)],
              out |-> <<HomeRequest(shop)>>, writes |-> <<>>]
        ELSE IF resp.json /\ ~resp.data.dict
        \* data.get(key) at line 341 raises AttributeError: the callback ends
        \* there, before its first yield and before any write.
        THEN [st |-> st0, out |-> <<>>, writes |-> <<>>]
        ELSE IF resp.json
        THEN LET cs   == _currency_from_json_shallow(resp.data)
                 st1  == IF cs[1] # None
                         THEN [st0 EXCEPT !.cur = CurrencySet(@, shop, cs[1], cs[2])]
                         ELSE st0
                 ph   == cs[1] # None /\ shop \notin st1.hw
                 st2  == IF ph THEN write_shop_item(st1, Placeholder, shop, w0) ELSE st1
                 loop == ProductLoop(st2, resp.data.products, 1, shop, meta_filters, ws)
             IN  [st |-> loop.st,
                  out |-> loop.out \o NextPage(resp.data.products, shop, meta_filters),
                  writes |-> (IF ph THEN <<w0>> ELSE <<>>) \o loop.writes]
        ELSE [st |-> st0,
              out |-> FollowProducts(resp.hrefs, shop,
                                     [meta_filters EXCEPT !.collection = None])
                      \o FollowCollections(resp.hrefs, shop),
              writes |-> <<>>]

RECURSIVE CountCallback(_, _)
CountCallback(out, callback) ==
    IF out = <<>> THEN 0
    ELSE (IF Head(out).callback = callback THEN 1 ELSE 0) + CountCallback(Tail(out), callback)

\* ----------------------------------------------------------------- actions
InitWith(ss, cs) ==
    /\ shops = ss
    /\ \E c \in cs : /\ collection = c[1]
                          /\ filter_tag = c[2]
                          /\ filter_product_type = c[3]
    /\ shop_stats = <<>>
    /\ shop_currency = <<>>
    /\ _header_written = {}
    /\ files = [f \in FileNames |-> <<>>]
    /\ requests = EmptyBag
    /\ phase = "constructed"
    /\ summary = <<>>
    /\ last = Event("__init__", NoRequest, NoResponse, <<>>, <<>>)
    /\ nresp = 0
    /\ listing_issued = [s \in Shops |-> 0]
    /\ empty_run = [s \in Shops |-> 0]
    /\ rejected = [s \in Shops |-> 0]

\* s.strip() on the items of a shops list.
StripShop(w) == CASE w = " "      -> ""
                  [] w = " a.pk " -> Shop1
                  [] OTHER        -> w

\* [s.strip() for s in shops.split(',') if s.strip()], on the items of the
\* comma-separated list (no item at all for None and for the empty string).
RECURSIVE SplitStrip(_)
SplitStrip(items) ==
    IF items = <<>> THEN <<>>
    ELSE (IF StripShop(Head(items)) # "" THEN <<StripShop(Head(items))>> ELSE <<>>)
         \o SplitStrip(Tail(items))

\* Variant: a default shop is crawled when no shop is provided.
BuildShops_default(shops_arg, env_shops, has_settings, settings_shops) ==
    IF SplitStrip(shops_arg) # <<>> THEN SplitStrip(shops_arg)
    ELSE IF SplitStrip(env_shops) # <<>> THEN SplitStrip(env_shops)
    ELSE IF has_settings /\ SplitStrip(settings_shops) # <<>> THEN SplitStrip(settings_shops)
    ELSE <<Shop2>>

\* Lines 37-50: self.shops from the argument, else from the environment
\* variable SHOPS, else from the setting SHOPS when the spider already has a
\* settings attribute.
BuildShops(shops_arg, env_shops, has_settings, settings_shops) ==
    IF SplitStrip(shops_arg) # <<>> THEN SplitStrip(shops_arg)
    ELSE IF SplitStrip(env_shops) # <<>> THEN SplitStrip(env_shops)
    ELSE IF has_settings /\ SplitStrip(settings_shops) # <<>> THEN SplitStrip(settings_shops)
    ELSE <<>>

\* The values a shops source may hold, as the items of the list.
ShopArgs == {<<>>, <<" ">>, <<" a.pk ", Shop2>>}

\* Raw filter arguments: <<collection, tag, product_type>>.
RawConfigs == {<<None, None, None>>, <<"sale", " New ", "Shoes">>}

\* The state before construction: no attribute of the spider exists yet.
InitNew ==
    /\ shops = <<>>
    /\ collection = None
    /\ filter_tag = None
    /\ filter_product_type = None
    /\ shop_stats = <<>>
    /\ shop_currency = <<>>
    /\ _header_written = {}
    /\ files = [f \in FileNames |-> <<>>]
    /\ requests = EmptyBag
    /\ phase = "new"
    /\ summary = <<>>
    /\ last = Event("new", NoRequest, NoResponse, <<>>, <<>>)
    /\ nresp = 0
    /\ listing_issued = [s \in Shops |-> 0]
    /\ empty_run = [s \in Shops |-> 0]
    /\ rejected = [s \in Shops |-> 0]

\* Lines 25-66: construction; ValueError is raised at line 52 when no shop
\* was found, before any other attribute is set.
__init__(shops_arg, env_shops, has_settings, settings_shops, c) ==
    LET built == BuildShops(shops_arg, env_shops, has_settings, settings_shops)
        args  == [status |-> 0, shops |-> shops_arg, env |-> env_shops,
                  has_settings |-> has_settings, settings |-> settings_shops]
    IN  /\ phase = "new"
        /\ last' = Event("__init__", NoRequest, args, <<>>, <<>>)
        /\ IF built = <<>>
           THEN /\ phase' = "failed"
                /\ UNCHANGED config
           ELSE /\ phase' = "constructed"
                /\ shops' = built
                /\ collection' = IF c[1] = None THEN None ELSE Strip(c[1])
                /\ filter_tag' = IF c[2] = None THEN None ELSE Lower(Strip(c[2]))
                /\ filter_product_type' = IF c[3] = None THEN None ELSE Lower(Strip(c[3]))
        /\ UNCHANGED <<shop_stats, shop_currency, _header_written, files, requests,
                       summary, nresp, history>>

Commit(st) ==
    /\ shop_stats' = st.stats
    /\ shop_currency' = st.cur
    /\ _header_written' = st.hw
    /\ files' = st.files

\* The scheduler takes r and hands back the requests of `out`.
Answered(r, out) ==
    /\ requests' = (requests (-) SetToBag({r})) (+) SeqToBag(out)
    /\ nresp' = nresp + 1

start_requests ==
    /\ phase = "constructed"
    /\ phase' = "crawling"
    /\ shop_stats' = SetDefaultAll(shop_stats, shops)
    /\ requests' = SeqToBag(SeedAll(shops))
    /\ listing_issued' = [s \in Shops |->
                               CountCallback(SeedRequests(s), "parse_products_json")
                               * Cardinality({i \in 1..Len(shops) : shops[i] = s})]
    /\ last' = Event("start_requests", NoRequest, NoResponse, SeedAll(shops), <<>>)
    /\ UNCHANGED <<config, shop_currency, _header_written, files, summary, nresp,
                   empty_run, rejected>>

errback_handler(r, resp) ==
    /\ phase = "crawling"
    /\ r.errback
    /\ resp.status \notin ({200} \cup handle_httpstatus_list)
    /\ Commit([Self EXCEPT !.stats = IncFailed(@, r.shop)])
    /\ Answered(r, <<>>)
    /\ last' = Event("errback_handler", r, resp, <<>>, <<>>)
    /\ UNCHANGED <<config, phase, summary, history>>

\* A failure of a request that has no errback: the framework logs it.
dropped(r, resp) ==
    /\ phase = "crawling"
    /\ ~r.errback
    /\ resp.status \notin {200}
    /\ r.callback = "parse_products_json" => resp.status \notin handle_httpstatus_list
    /\ Answered(r, <<>>)
    /\ last' = Event("dropped", r, resp, <<>>, <<>>)
    /\ UNCHANGED <<config, shop_stats, shop_currency, _header_written, files, phase,
                   summary, history>>

parse_products_json(r, resp, w0, ws) ==
    LET res == ListingResult(Self, r.shop, r.meta, resp, w0, ws)
        normal == ~Rejected(resp) /\ resp.json
    IN  /\ phase = "crawling"
        /\ r.callback = "parse_products_json"
        /\ resp.status \in ({200} \cup handle_httpstatus_list)
        /\ Commit(res.st)
        /\ Answered(r, res.out)
        /\ last' = Event("parse_products_json", r, resp, res.out, res.writes)
        /\ listing_issued' = [listing_issued EXCEPT ![r.shop] =
                                  @ + CountCallback(res.out, "parse_products_json")]
        /\ empty_run' = [empty_run EXCEPT ![r.shop] =
                             IF ~normal THEN @
                             ELSE IF resp.data.products = <<>> THEN @ + 1 ELSE 0]
        /\ rejected' = [rejected EXCEPT ![r.shop] = IF Rejected(resp) THEN @ + 1 ELSE @]
        /\ UNCHANGED <<config, phase, summary>>

parse_currency_page(r, page, outcome) ==
    LET shop == r.shop
        cs   == _currency_from_html(page, shop)
        cur1 == IF cs[1] # None THEN CurrencySet(shop_currency, shop, cs[1], cs[2])
                ELSE shop_currency
        filename == _safe_shop_filename(shop)
    IN  /\ phase = "crawling"
        /\ r.callback = "parse_currency_page"
        /\ shop_currency' = cur1
        /\ IF shop \notin _header_written /\ outcome = "ok"
           THEN /\ files' = [files EXCEPT ![filename] = Append(@, Header(shop, cs[1], cs[2]))]
                /\ _header_written' = _header_written \cup {shop}
           ELSE UNCHANGED <<files, _header_written>>
        /\ Answered(r, <<>>)
        /\ last' = Event("parse_currency_page", r, page, <<>>,
                         IF shop \notin _header_written THEN <<outcome>> ELSE <<>>)
        /\ UNCHANGED <<config, shop_stats, phase, summary, history>>

parse_collection_page(r, page) ==
    LET shop  == r.shop
        stats0 == setdefault(shop_stats, shop)
        out   == FollowProducts(page.hrefs, shop, r.meta)
    IN  /\ phase = "crawling"
        /\ r.callback = "parse_collection_page"
        /\ shop_stats' = IF page.password \/ out = <<>> THEN IncFailed(stats0, shop)
                         ELSE stats0
        /\ Answered(r, IF page.password THEN <<>> ELSE out)
        /\ last' = Event("parse_collection_page", r, page,
                         IF page.password THEN <<>> ELSE out, <<>>)
        /\ UNCHANGED <<config, shop_currency, _header_written, files, phase, summary,
                       history>>

parse_product_page(r, page, outcome) ==
    LET shop == r.shop
        item_dict == [source |-> shop, url |-> "page", price |-> page.price]
    IN  /\ phase = "crawling"
        /\ r.callback = "parse_product_page"
        /\ Commit(write_shop_item(Self, item_dict, shop, outcome))
        /\ Answered(r, <<>>)
        /\ last' = Event("parse_product_page", r, page, <<>>, <<outcome>>)
        /\ UNCHANGED <<config, phase, summary, history>>

\* sorted(self.shop_stats.items()): the keys in lexicographic order.
CharRank(c) == CASE c = "." -> 1 [] c = "/" -> 2 [] c = "a" -> 3 [] c = "b" -> 4
                 [] c = "c" -> 5 [] c = "k" -> 6 [] c = "l" -> 7 [] c = "p" -> 8
                 [] c = "s" -> 9 [] c = "u" -> 10 [] OTHER -> 11

RECURSIVE SeqLess(_, _)
SeqLess(a, b) ==
    IF b = <<>> THEN FALSE
    ELSE IF a = <<>> THEN TRUE
    ELSE IF Head(a) = Head(b) THEN SeqLess(Tail(a), Tail(b))
    ELSE CharRank(Head(a)) < CharRank(Head(b))

LexLess(a, b) == SeqLess(Chars(a), Chars(b))

RECURSIVE Sorted(_)
Sorted(S) ==
    IF S = {} THEN <<>>
    ELSE LET m == CHOOSE x \in S : \A y \in S \ {x} : LexLess(x, y)
         IN  <<m>> \o Sorted(S \ {m})

SummaryLine(shop, st) ==
    [shop |-> shop, items |-> st.items, saved |-> st.saved, failed |-> st.failed]

\* Line 540: the first line of the summary file.
SummaryTitle == [title |-> "crawl summary per shop"]

\* Variant: only the shops that saved a record get a line.
SummaryLines_saved_only(stats) ==
    LET kept == {x \in DOMAIN stats : stats[x].saved > 0}
    IN  [i \in 1..Cardinality(kept) |-> SummaryLine(Sorted(kept)[i], stats[Sorted(kept)[i]])]

\* Lines 541-543: one line per entry of shop_stats, in sorted order.
SummaryLines(stats) ==
    [i \in 1..Cardinality(DOMAIN stats) |->
        SummaryLine(Sorted(DOMAIN stats)[i], stats[Sorted(DOMAIN stats)[i]])]

\* The spider_closed signal: fired once, when no request is left.  The file
\* is opened for writing ("ok"), or open() raises and nothing is written
\* ("fail", lines 549-550).
spider_closed(outcome) ==
    /\ phase = "crawling"
    /\ requests = EmptyBag
    /\ phase' = "closed"
    /\ summary' = IF outcome = "ok" THEN <<SummaryTitle>> \o SummaryLines(shop_stats)
                  ELSE summary
    /\ last' = Event("spider_closed", NoRequest, NoResponse, <<>>, <<outcome>>)
    /\ UNCHANGED <<config, shop_stats, shop_currency, _header_written, files, requests,
                   nresp, history>>

\* ------------------------------------------------------- specifications
Pending == BagToSet(requests)

WriteSeqs(n) == [1..n -> WriteOutcomes]

\* Responses explored in one crawl: MaxResponses for one shop, one more for
\* each further shop, so that every seed request of the crawl can be answered.
Budget == MaxResponses + Len(shops) - 1

DeliverListing(Rs) ==
    /\ nresp < Budget
    /\ \E r \in Pending, resp \in Rs, w0 \in WriteOutcomes :
         \E ws \in WriteSeqs(Len(resp.data.products)) :
            parse_products_json(r, resp, w0, ws)

DeliverProbe(Ps) ==
    /\ nresp < Budget
    /\ \E r \in Pending, page \in Ps, outcome \in WriteOutcomes :
         parse_currency_page(r, page, outcome)

DeliverCollection ==
    /\ nresp < Budget
    /\ \E r \in Pending, page \in CollectionPages : parse_collection_page(r, page)

DeliverProduct ==
    /\ nresp < Budget
    /\ \E r \in Pending, page \in ProductPages, outcome \in WriteOutcomes :
         parse_product_page(r, page, outcome)

DeliverFailure(Rs) ==
    /\ nresp < Budget
    /\ \E r \in Pending, resp \in Rs : errback_handler(r, resp)

\* Failures of the other requests are explored with one status.
DropFailure(Rs) ==
    /\ nresp < Budget
    /\ \E r \in Pending, resp \in Rs :
         /\ r.callback # "parse_products_json" => resp.status = 500
         /\ dropped(r, resp)

Close == \E outcome \in WriteOutcomes : spider_closed(outcome)

\* A crawl of one shop.
Init == InitWith(<<Shop2>>, Configs)

Next ==
    \/ start_requests
    \/ DeliverListing(ListingResponses)
    \/ DeliverProbe(ProbePages)
    \/ DeliverCollection
    \/ DeliverProduct
    \/ DeliverFailure(ListingResponses)
    \/ DropFailure(ListingResponses)
    \/ Close

Spec == Init /\ [][Next]_vars

\* A crawl of two shops without filters, on fewer kinds of responses.
PairListingResponses ==
    {ListingResponse(200, TRUE, TRUE, Data12, <<>>),
     ListingResponse(404, FALSE, FALSE, DataEmpty, <<>>),
     ListingResponse(500, FALSE, FALSE, DataEmpty, <<>>)}

InitPair == InitWith(<<Shop1, Shop2>>, {<<None, None, None>>})

NextPair ==
    \/ start_requests
    \/ DeliverListing(PairListingResponses)
    \/ DeliverProbe({PagePlain})
    \/ DeliverCollection
    \/ DeliverProduct
    \/ DeliverFailure(PairListingResponses)
    \/ DropFailure(PairListingResponses)
    \/ Close

SpecPair == InitPair /\ [][NextPair]_vars

\* A crawl of two shops that can be brought to its end: a listing response is
\* a page of one record without id, or a server error.
CloseResponses ==
    {ListingResponse(200, TRUE, TRUE, DataNoId, <<>>),
     ListingResponse(500, FALSE, FALSE, DataEmpty, <<>>)}

NextClose ==
    \/ start_requests
    \/ DeliverListing(CloseResponses)
    \/ DeliverProbe({PagePlain})
    \/ DeliverFailure(CloseResponses)
    \/ Close

SpecClose == InitPair /\ [][NextClose]_vars

\* Construction from every combination of the shops sources, and the crawl
\* that follows a successful construction.
Construct ==
    \E shops_arg \in ShopArgs, env_shops \in ShopArgs, has_settings \in BOOLEAN,
       settings_shops \in ShopArgs, c \in RawConfigs :
        __init__(shops_arg, env_shops, has_settings, settings_shops, c)

NextCtor ==
    \/ Construct
    \/ start_requests
    \/ DeliverListing(CloseResponses)
    \/ DeliverProbe({PagePlain})
    \/ DeliverFailure(CloseResponses)
    \/ Close

SpecCtor == InitNew /\ [][NextCtor]_vars

\* A crawl of one shop, any of the shop keys, without filters.
InitHosts == \E s \in Shops : InitWith(<<s>>, {<<None, None, None>>})

NextHosts ==
    \/ start_requests
    \/ DeliverListing(PairListingResponses)
    \/ DeliverProbe(ProbePages)
    \/ DeliverCollection
    \/ DeliverProduct
    \/ Close

SpecHosts == InitHosts /\ [][NextHosts]_vars

\* A crawl of one shop whose listing responses are JSON pages of many kinds,
\* every write succeeding.
PageResponses == {ListingResponse(200, TRUE, TRUE, d, <<>>) : d \in PagePayloads}

DeliverPage ==
    /\ nresp < Budget
    /\ \E r \in Pending, resp \in PageResponses :
         parse_products_json(r, resp, "ok", [i \in 1..Len(resp.data.products) |-> "ok"])

NextPages == start_requests \/ DeliverPage \/ DeliverProbe({PagePlain})

SpecPages == Init /\ [][NextPages]_vars

\* A crawl of one shop whose every listing response is the same non-empty
\* page, written successfully.
ChainResponse == ListingResponse(200, TRUE, TRUE,
                                 Payload(<<>>, <<Prod(1, "Shoes", <<"12">>)>>), <<>>)

DeliverChain ==
    /\ nresp < MaxChain
    /\ \E r \in Pending : parse_products_json(r, ChainResponse, "ok", <<"ok">>)

NextChain == start_requests \/ DeliverChain

SpecChain == Init /\ [][NextChain]_vars

\* ------------------------------------------------------------- properties
StreamOf(s) == files[_safe_shop_filename(s)]

Handlers == {"parse_products_json", "parse_currency_page", "parse_collection_page",
             "parse_product_page", "errback_handler", "dropped"}

\* e is parse_products_json on a 200 response whose JSON body parsed.
NormalPage(e) ==
    /\ e.callback = "parse_products_json"
    /\ ~Rejected(e.response)
    /\ e.response.json

\* e is parse_products_json on a response it rejects.
RejectedPage(e) == e.callback = "parse_products_json" /\ Rejected(e.response)

\* Listing requests yielded by the invocation e.
Issued(e) == CountCallback(e.yielded, "parse_products_json")

ListingPending(reqs, s) ==
    \E q \in BagToSet(reqs) : q.callback = "parse_products_json" /\ q.shop = s

RECURSIVE CountOutcome(_, _)
CountOutcome(writes, o) ==
    IF writes = <<>> THEN 0
    ELSE (IF Head(writes) = o THEN 1 ELSE 0) + CountOutcome(Tail(writes), o)

MatchCount(products, meta_filters) ==
    Cardinality({i \in 1..Len(products) : _product_matches_filters(products[i], meta_filters)})

\* C1: in every reachable state, for every shop, a non-empty output stream
\* starts with that shop's header record (type = currency_info), whatever the
\* order of the probe and the writing callbacks, also with a null currency.
C1_HeaderFirst ==
    \A s \in Shops :
        StreamOf(s) # <<>> => IsHeader(StreamOf(s)[1]) /\ StreamOf(s)[1].shop = s

\* A product was written under a header with null currency, and the probe
\* response arrived afterwards.
C1_Witness ==
    \E s \in Shops :
        /\ Len(StreamOf(s)) >= 2
        /\ IsHeader(StreamOf(s)[1])
        /\ StreamOf(s)[1].currency = None
        /\ IsProduct(StreamOf(s)[2])
        /\ last.callback = "parse_currency_page"
        /\ last.shop = s

\* C2: in every shop's stream no product id occurs in two records (each
\* distinct product id is emitted at most once).
C2_EachIdOnce ==
    \A s \in Shops : \A i, j \in 1..Len(StreamOf(s)) :
        (/\ i < j
         /\ "product_id" \in DOMAIN StreamOf(s)[i]
         /\ "product_id" \in DOMAIN StreamOf(s)[j]
         /\ StreamOf(s)[i].product_id # 0)
        => StreamOf(s)[i].product_id # StreamOf(s)[j].product_id

\* C3: once shop_currency[shop] holds a (code, source) pair, no step changes it.
C3_Sticky ==
    [][\A s \in DOMAIN shop_currency :
          s \in DOMAIN shop_currency' /\ shop_currency'[s] = shop_currency[s]]_vars

C6_PageCeiling == \A s \in Shops : listing_issued[s] <= 500

\* C7: in every shop's stream the first record is a header and every later
\* record is a product record of that shop.
C7_HeaderThenProducts ==
    \A s \in Shops : \A i \in 1..Len(StreamOf(s)) :
        IF i = 1 THEN IsHeader(StreamOf(s)[i])
        ELSE IsProduct(StreamOf(s)[i]) /\ StreamOf(s)[i].source = s

\* C8: on a listing page, every failed write adds one to the shop's failed
\* counter and nothing to items/saved, every matching product of the page is
\* still written (or counted failed), and the next-page request is issued as
\* for a page without failures.
C8_WriteFailureContained ==
    [][NormalPage(last') =>
          /\ shop_stats'[last'.shop].failed =
                shop_stats[last'.shop].failed + CountOutcome(last'.writes, "fail")
          /\ shop_stats'[last'.shop].items =
                shop_stats[last'.shop].items + CountOutcome(last'.writes, "ok")
          /\ shop_stats'[last'.shop].saved =
                shop_stats[last'.shop].saved + CountOutcome(last'.writes, "ok")
          /\ Len(last'.writes) >=
                MatchCount(last'.response.data.products, last'.req.meta)
          /\ Issued(last') =
                IF /\ last'.response.data.products # <<>>
                   /\ Last(last'.response.data.products).id # 0
                THEN 1 ELSE 0]_vars

\* The first write of a page failed, the second succeeded and the next page
\* was asked for.
C8_Witness ==
    /\ NormalPage(last)
    /\ last.writes = <<"fail", "ok">>
    /\ Issued(last) = 1
    /\ shop_stats[last.shop].failed >= 1
    /\ ListingPending(requests, last.shop)

Unparseable(resp) ==
    resp.status = 200 /\ (~resp.json \/ ~resp.parse_ok \/ ~resp.data.dict)

\* C11: a status-200 listing response whose body cannot be parsed as the
\* catalog format writes no record, issues at least one fresh request for the
\* same shop (the fallback) and issues no listing request.
C11_MalformedFallback ==
    [][(last'.callback = "parse_products_json" /\ Unparseable(last'.response)) =>
          /\ last'.writes = <<>>
          /\ files' = files
          /\ Len(last'.yielded) >= 1
          /\ \A i \in 1..Len(last'.yielded) : last'.yielded[i].shop = last'.shop
          /\ Issued(last') = 0]_vars

\* C12: when a filter is configured, every product record of every stream,
\* whichever callback wrote it, is a record of a catalog entry whose
\* product_type equals filter_product_type and whose tags contain filter_tag
\* (both compared case-insensitively).
C12_FilteredRecords ==
    \A s \in Shops : \A i \in 1..Len(StreamOf(s)) :
        LET rec == StreamOf(s)[i]
        IN  IsProduct(rec) =>
              /\ filter_product_type # None =>
                    /\ "raw" \in DOMAIN rec
                    /\ Lower(Strip(rec.raw.product_type)) = filter_product_type
              /\ filter_tag # None =>
                    /\ "raw" \in DOMAIN rec
                    /\ \E j \in 1..Len(rec.raw.tags.val) :
                          Strip(Lower(rec.raw.tags.val[j])) = filter_tag

HasCode(text) == \E i \in 1..Len(text) : text[i] \in Upper3

FirstCode(text) ==
    text[CHOOSE i \in 1..Len(text) :
            text[i] \in Upper3 /\ \A j \in 1..(i - 1) : text[j] \notin Upper3]

\* The string value of a top-level key of the payload (empty when absent).
KeyValue(data, n) == GetField(data.fields, TopKeys[n])

\* C14: when the payload has one of the six top-level keys with a string value
\* containing three consecutive uppercase letters, the detector returns the
\* token embedded in the first such key (in the order of the key list) with
\* the source json_key, whatever nested values or symbols the payload holds.
C14_StructuredKeyWins ==
    [][NormalPage(last') =>
          \A n \in 1..Len(TopKeys) :
              (/\ HasCode(KeyValue(last'.response.data, n))
               /\ \A m \in 1..(n - 1) : ~HasCode(KeyValue(last'.response.data, m)))
              => /\ _currency_from_json_shallow(last'.response.data) =
                       <<FirstCode(KeyValue(last'.response.data, n)), "json_key">>
                 /\ shop_currency'[last'.shop] =
                       <<FirstCode(KeyValue(last'.response.data, n)), "json_key">>]_vars

\* The payload had a structured key holding GBP, a nested value EUR that the
\* nested scan alone would return and a dollar sign; GBP/json_key was cached.
C14_Witness ==
    /\ NormalPage(last)
    /\ HasCode(KeyValue(last.response.data, 5))
    /\ ScanEntries(last.response.data.fields) = "EUR"
    /\ SymIn("$", DumpsText(last.response.data))
    /\ shop_currency[last.shop] = <<"GBP", "json_key">>

\* tok is a symbol of the symbol table; the code the table gives it.
IsSymbol(tok) == \E n \in 1..Len(_SYMBOL_TO_CODE) : _SYMBOL_TO_CODE[n][1] = tok

SymbolCode(tok) ==
    _SYMBOL_TO_CODE[CHOOSE n \in 1..Len(_SYMBOL_TO_CODE) : _SYMBOL_TO_CODE[n][1] = tok][2]

\* C15: when the symbol scan of the serialized payload decides, the code
\* returned (and cached for the shop) is that of the table symbol that occurs
\* earliest in the payload text.
C15_EarliestSymbol ==
    [][NormalPage(last') =>
          LET res  == _currency_from_json_shallow(last'.response.data)
              text == DumpsText(last'.response.data)
          IN  res[2] = "json_symbol" =>
                \E i \in 1..Len(text) :
                    /\ IsSymbol(text[i])
                    /\ \A j \in 1..(i - 1) : ~IsSymbol(text[j])
                    /\ res[1] = SymbolCode(text[i])
                    /\ shop_currency'[last'.shop] = res]_vars

\* C16: the TLD heuristic returns a code only when the host's domain suffix
\* (the host itself or what follows one of its dots) is a key of the TLD
\* table, and then the code of that key; no other host gets a currency from it.
C16_TldSuffix ==
    [][last'.callback = "parse_currency_page" =>
          LET res  == _currency_from_html(last'.response, last'.shop)
              host == Host(last'.shop)
          IN  res[2] = "tld_heuristic" =>
                /\ shop_currency'[last'.shop] = res
                /\ \E n \in 1..Len(_TLD_TO_CURRENCY) :
                      /\ \/ host = _TLD_TO_CURRENCY[n][1]
                         \/ EndsWith(host, <<".">> \o _TLD_TO_CURRENCY[n][1])
                      /\ res[1] = _TLD_TO_CURRENCY[n][2]]_vars

\* The records appended to a stream: what `new` holds after `old`.
Appended(old, new) == SubSeq(new, Len(old) + 1, Len(new))

\* C17: every record written from a catalog record of a listing page carries
\* as currency the code cached for the shop if there is one, otherwise the
\* code the price-text fallback finds in the record's own price (or null);
\* its price_with_currency is "CODE: price" when it has a code and a price,
\* and the raw price otherwise.
C17_CurrencyAnnotation ==
    [][NormalPage(last') =>
          \A i \in 1..Len(Appended(files[_safe_shop_filename(last'.shop)],
                                   files'[_safe_shop_filename(last'.shop)])) :
              LET rec == Appended(files[_safe_shop_filename(last'.shop)],
                                  files'[_safe_shop_filename(last'.shop)])[i]
              IN  IsProduct(rec) =>
                    /\ rec.currency =
                          IF last'.shop \in DOMAIN shop_currency'
                          THEN shop_currency'[last'.shop][1]
                          ELSE _currency_from_price_text(rec.price)
                    /\ rec.price_with_currency =
                          IF rec.currency # None /\ rec.price # <<>>
                          THEN <<rec.currency, ": ">> \o rec.price
                          ELSE rec.price]_vars

\* A record whose price carries a euro sign was written while PKR was cached
\* for the shop: it is annotated PKR.
C17_Witness ==
    /\ NormalPage(last)
    /\ \E i \in 1..Len(StreamOf(last.shop)) :
          LET rec == StreamOf(last.shop)[i]
          IN  /\ IsProduct(rec)
              /\ rec.price = <<"EUR_SIGN", "12">>
              /\ _currency_from_price_text(rec.price) = "EUR"
              /\ rec.currency = "PKR"
              /\ rec.price_with_currency = <<"PKR", ": ", "EUR_SIGN", "12">>
    /\ shop_currency[last.shop][1] = "PKR"

\* The shops the crawl was seeded with.
Seeded == {shops[i] : i \in 1..Len(shops)}

Blank(items) == \A i \in 1..Len(items) : StripShop(items[i]) = ""

\* C19: when neither the argument, nor the environment variable, nor the
\* setting provides a shop, construction fails, and no request, no per-shop
\* state and no output exists then or later.
C19_NoShopsFails ==
    [][/\ (/\ last'.callback = "__init__"
           /\ Blank(last'.response.shops)
           /\ Blank(last'.response.env)
           /\ Blank(last'.response.settings))
          => /\ phase' = "failed"
             /\ requests' = EmptyBag
             /\ shop_stats' = <<>> /\ shop_currency' = <<>> /\ _header_written' = {}
             /\ \A f \in FileNames : files'[f] = <<>>
             /\ summary' = <<>>
       /\ phase # "failed"]_vars

\* Construction was attempted with a blank shops argument and nothing in the
\* environment: it failed.
C19_Witness ==
    /\ phase = "failed"
    /\ last.callback = "__init__"
    /\ last.response.shops = <<" ">>
    /\ last.response.env = <<>>
    /\ requests = EmptyBag

\* e is a listing page with records, all of them rejected by the filters.
AllRejected(e) ==
    /\ NormalPage(e)
    /\ e.response.data.products # <<>>
    /\ MatchCount(e.response.data.products, e.req.meta) = 0

\* C20: a listing page whose record list is non-empty but whose records are
\* all rejected by the tag/product_type filter writes no product record,
\* counts as a non-empty page and issues the next-page request that the
\* unfiltered page issues: one request, with since_id the id of its last raw
\* record (none when that record has no id).
C20_FilterAfterPagination ==
    [][AllRejected(last') =>
          /\ \A i \in 1..Len(Appended(files[_safe_shop_filename(last'.shop)],
                                      files'[_safe_shop_filename(last'.shop)])) :
                ~IsProduct(Appended(files[_safe_shop_filename(last'.shop)],
                                    files'[_safe_shop_filename(last'.shop)])[i])
          /\ shop_stats'[last'.shop].failed = shop_stats[last'.shop].failed
          /\ empty_run'[last'.shop] = 0
          /\ IF Last(last'.response.data.products).id # 0
             THEN /\ Issued(last') = 1
                  /\ Last(last'.yielded).since_id = Last(last'.response.data.products).id
                  /\ ListingPending(requests', last'.shop)
             ELSE Issued(last') = 0]_vars

\* A filtered crawl received a page of one record of another product type:
\* nothing was written and the next page was asked for.
C20_Witness ==
    /\ AllRejected(last)
    /\ filter_product_type = "shoes"
    /\ last.response.data.products[1].product_type = "hats"
    /\ last.writes = <<>>
    /\ Issued(last) = 1
    /\ ListingPending(requests, last.shop)

\* C21: no step (callback, write, failure handler, summarizer) removes a
\* shop's counters or decreases its items, saved or failed counter.
C21_CountersMonotonic ==
    [][\A s \in DOMAIN shop_stats :
          /\ s \in DOMAIN shop_stats'
          /\ shop_stats'[s].items >= shop_stats[s].items
          /\ shop_stats'[s].saved >= shop_stats[s].saved
          /\ shop_stats'[s].failed >= shop_stats[s].failed]_vars

\* A shop whose counters had already grown was handled again by a callback
\* that starts with setdefault, and its failed counter grew once more.
C21_Witness ==
    \E s \in DOMAIN shop_stats :
        /\ shop_stats[s].saved >= 1
        /\ shop_stats[s].failed >= 2
        /\ last.callback = "parse_collection_page"
        /\ last.shop = s

\* C22: in every stream, every product record that has a currency annotation
\* carries the currency code of the header record of that stream.
C22_HeaderCurrencyAgrees ==
    \A s \in Shops : \A i \in 2..Len(StreamOf(s)) :
        (IsHeader(StreamOf(s)[1]) /\ "currency" \in DOMAIN StreamOf(s)[i])
        => StreamOf(s)[i].currency = StreamOf(s)[1].currency

\* C23: when a collection filter is configured, every listing request handed
\* to the scheduler, the first and every follow-up, addresses the listing
\* endpoint of that collection.
C23_CollectionEndpoint ==
    collection # None =>
        \A q \in BagToSet(requests) :
            q.callback = "parse_products_json" =>
                q.path \in {"collections/<collection>/products.json?limit=250",
                            "collections/<collection>/products.json?limit=250&since_id="}

\* C24: start_requests seeds one currency probe per shop, and the handling of
\* one listing page issues at most one further currency probe.
C24_OneProbePerPage ==
    [][/\ last'.callback = "start_requests" =>
             \A s \in Seeded :
                 Cardinality({i \in 1..Len(last'.yielded) :
                                 /\ last'.yielded[i].callback = "parse_currency_page"
                                 /\ last'.yielded[i].shop = s}) = 1
       /\ last'.callback = "parse_products_json" =>
             CountCallback(last'.yielded, "parse_currency_page") <= 1]_vars

\* Number of listing requests of shop s waiting in the scheduler.
ListingOutstanding(reqs, s) ==
    LET qs == {q \in BagToSet(reqs) : q.callback = "parse_products_json" /\ q.shop = s}
        RECURSIVE Sum(_)
        Sum(S) == IF S = {} THEN 0
                  ELSE LET q == CHOOSE x \in S : TRUE
                       IN  CopiesIn(q, reqs) + Sum(S \ {q})
    IN  Sum(qs)

\* C25: the listing chain of a shop is linear: one listing response yields at
\* most one follow-up listing request, at most one listing request of a shop
\* is outstanding at any time, and once a listing response of the shop was
\* rejected (401/403/404 or a parse failure) no listing request of that shop
\* is outstanding or issued any more.
C25_LinearChain ==
    [][/\ last'.callback = "parse_products_json" => Issued(last') <= 1
       /\ \A s \in Shops :
             /\ ListingOutstanding(requests', s) <= 1
             /\ rejected'[s] >= 1 => ~ListingPending(requests', s)
             /\ rejected[s] >= 1 => listing_issued'[s] = listing_issued[s]]_vars

C25_Witness ==
    \E s \in Seeded :
        /\ rejected[s] = 1
        /\ listing_issued[s] >= 2
        /\ last.callback = "parse_collection_page"
        /\ last.shop = s
        /\ last.yielded # <<>>

\* C26: for every shop the items counter equals the saved counter in every
\* state; a callback that writes products raises both by the number of
\* its successful writes, so a failed write changes neither.
C26_ItemsEqualSaved ==
    [][\A s \in DOMAIN shop_stats' :
          /\ shop_stats'[s].items = shop_stats'[s].saved
          /\ (/\ s \in DOMAIN shop_stats
              /\ last'.callback \in {"parse_products_json", "parse_product_page"}
              /\ last'.shop = s)
             => /\ shop_stats'[s].items =
                      shop_stats[s].items + CountOutcome(last'.writes, "ok")
                /\ shop_stats'[s].saved =
                      shop_stats[s].saved + CountOutcome(last'.writes, "ok")]_vars

C26_Witness ==
    \E s \in DOMAIN shop_stats :
        /\ shop_stats[s].items >= 1
        /\ shop_stats[s].items = shop_stats[s].saved
        /\ last.callback = "parse_products_json"
        /\ last.shop = s
        /\ CountOutcome(last.writes, "fail") >= 1
        /\ CountOutcome(last.writes, "ok") >= 1
====
